---- MODULE Spec2Model ----
(***************************************************************************)
(* Model of the Rancher cloud provider facade of the cluster autoscaler   *)
(* (cluster-autoscaler/cloudprovider/rancher/rancher_cloud_provider.go).  *)
(*                                                                         *)
(* rancherCloudProvider holds two references, manager and                  *)
(* resourceLimiter, and forwards every call to the RancherManager.  The    *)
(* manager's own source is not part of the files at hand: its cache, its   *)
(* Refresh and its Cleanup are modelled from the written specification     *)
(* (sections 4.3, 5 and 6) and are marked as such where they are defined.  *)
(***************************************************************************)
EXTENDS Naturals, FiniteSets, Sequences, TLC

VARIABLES
    cp,            \* the rancherCloudProvider struct: manager and resourceLimiter references
    built,         \* the arguments BuildRancherCloudProvider was called with
    manager,       \* the RancherManager's state: its Cached Index and whether it was cleaned up
    backend,       \* what the infrastructure backend would report to a pull right now
    backendCalls,  \* number of pulls made from the backend so far
    installed,     \* the index the backend reported to the most recent successful Refresh
    refreshed,     \* TRUE once some Refresh has succeeded
    last,          \* the most recent completed facade call: operation, argument, return value
    pending,       \* concurrent runs: the Refresh in flight (what its pull returned)
    hist,          \* concurrent runs: the generations installed so far, oldest first
    rd             \* concurrent runs: each reader's call in flight and its last result

vars == <<cp, built, manager, backend, backendCalls, installed, refreshed, last,
          pending, hist, rd>>

-----------------------------------------------------------------------------
(* Bounds and value sets *)

\* Refresh is called at most this many times in a run.
MaxRefresh == 2

Nodes == {"worker-7", "worker-8"}
Pools == {"pool-a", "pool-b"}
Limiters == {"limiter-1"}
ManagerRef == "manager-0"
Readers == {"r1", "r2"}

\* Go's nil, for pointers, interfaces and slices.
Nil == "nil"

\* An error value: its kind and the text it carries.  NoError is a nil error.
NoError == [kind |-> "nil", text |-> ""]
ErrNotImplemented == [kind |-> "ErrNotImplemented", text |-> ""]
ErrNodeNotFound(name) == [kind |-> "node not found", text |-> name]
ErrListing == [kind |-> "listing failed", text |-> ""]
ErrRefresh == [kind |-> "refresh failed", text |-> ""]

\* A node group handle: rancherNodeGroup{manager, id}.  NilGroup is a nil interface.
NilGroup == [manager |-> Nil, id |-> ""]

\* A Cached Index: the pool ids, and the pool id recorded for each cached node
\* ("" when the backend reported the node without a pool).
Indexes ==
    { [groups |-> g, nodes |-> f] :
        g \in SUBSET Pools,
        f \in UNION { [d -> Pools \cup {""}] : d \in SUBSET Nodes } }

EmptyIndex == [groups |-> {}, nodes |-> [n \in {} |-> ""]]

\* The pool id an index records for a node; Nil when it does not hold the node.
PoolOf(ix, n) == IF n \in DOMAIN ix.nodes THEN ix.nodes[n] ELSE Nil

\* The backend states one change away from b: one pool created or deleted,
\* or one node added, removed or moved.
Neighbours(b) ==
    { x \in Indexes :
        \/ /\ x.nodes = b.nodes
           /\ Cardinality((x.groups \ b.groups) \cup (b.groups \ x.groups)) = 1
        \/ /\ x.groups = b.groups
           /\ Cardinality({ n \in Nodes : PoolOf(x, n) # PoolOf(b, n) }) = 1 }

\* The backend states a run starts from, and those the concurrent runs move between.
SampleBackendStates ==
    { EmptyIndex,
      [groups |-> {"pool-a"}, nodes |-> [n \in {"worker-7", "worker-8"} |->
                                            IF n = "worker-7" THEN "pool-a" ELSE ""]],
      [groups |-> {"pool-b"}, nodes |-> [n \in {"worker-7"} |-> "pool-b"]] }

-----------------------------------------------------------------------------
(* RancherManager, modelled from the specification *)

\* The manager a builder hands to the provider: an empty cache, nothing released.
NewManager == [cache |-> EmptyIndex, released |-> FALSE]

\* GetCachedNodeGroups: the handles of the cached pools, or a listing failure.
GetCachedNodeGroups(m, listOK) ==
    IF listOK
    THEN [ngs |-> { [manager |-> ManagerRef, id |-> p] : p \in m.cache.groups },
          err |-> NoError]
    ELSE [ngs |-> {}, err |-> ErrListing]

\* A nil *RancherNode.
NilNode == [NodeName |-> Nil, NodePoolID |-> Nil]

\* GetCachedNodeForKubernetesNode: the cached node of that name, or an error
\* when the cache holds no such node.
GetCachedNodeForKubernetesNode(m, name) ==
    IF name \in DOMAIN m.cache.nodes
    THEN [node |-> [NodeName |-> name, NodePoolID |-> m.cache.nodes[name]],
          err |-> NoError]
    ELSE [node |-> NilNode, err |-> ErrNodeNotFound(name)]

\* A Cached Index with the pools and nodes of old kept under those of new.
MergeIndex(old, new) ==
    [groups |-> old.groups \cup new.groups,
     nodes |-> [n \in DOMAIN old.nodes \cup DOMAIN new.nodes |->
                  IF n \in DOMAIN new.nodes THEN new.nodes[n] ELSE old.nodes[n]]]

\* The generation swap: the new index replaces the old one whole.
InstallIndex(old, new) == new

\* What a pull from the backend returns: the backend's state, or a failure.
Pull(ok, b) == [ok |-> ok, index |-> IF ok THEN b ELSE EmptyIndex]

\* Manager.Refresh given what its pull returned: a failed pull leaves the cache
\* as it was and is reported; a successful one installs the new generation.
ManagerRefresh(m, pulled) ==
    IF ~pulled.ok
    THEN [mgr |-> m, err |-> ErrRefresh]
    ELSE [mgr |-> [m EXCEPT !.cache = InstallIndex(m.cache, pulled.index)], err |-> NoError]

\* Variant: a Cleanup that refuses to run on a manager already released.
ManagerCleanupOnce(m) ==
    IF m.released
    THEN [mgr |-> m, err |-> [kind |-> "already cleaned up", text |-> ""]]
    ELSE [mgr |-> [m EXCEPT !.released = TRUE], err |-> NoError]

\* Manager.Cleanup: releases what the manager holds; a second call is a no-op.
ManagerCleanup(m) == [mgr |-> [m EXCEPT !.released = TRUE], err |-> NoError]

-----------------------------------------------------------------------------
(* rancherCloudProvider: the facade, from rancher_cloud_provider.go *)

\* Variant: a builder that forgets the limiter.
BuildWithoutLimiter(mref, resourceLimiter) ==
    [provider |-> [manager |-> mref, resourceLimiter |-> Nil], err |-> NoError]

\* BuildRancherCloudProvider: stores both references, never fails.
BuildRancherCloudProvider(mref, resourceLimiter) ==
    [provider |-> [manager |-> mref, resourceLimiter |-> resourceLimiter],
     err |-> NoError]

\* The error of line 91: "missing node pool name for node <name> (<id>)".
ErrMissingPool(node) == [kind |-> "missing node pool name for node", text |-> node.NodeName]

\* Variant: the error test of line 73 inverted.
NodeGroupsInverted(m, listOK) ==
    LET r == GetCachedNodeGroups(m, listOK)
    IN  IF r.err = NoError THEN {} ELSE r.ngs

\* NodeGroups: the manager's cached handles; a listing failure is logged and
\* nil is returned.  A slice is modelled as the set of its elements, the nil
\* slice as the empty set.
NodeGroups(m, listOK) ==
    LET r == GetCachedNodeGroups(m, listOK)
    IN  IF r.err # NoError THEN {} ELSE r.ngs

\* Variant: the empty pool id test of line 90 left out.
NodeGroupForNodeUnchecked(c, m, name) ==
    LET r == GetCachedNodeForKubernetesNode(m, name)
    IN  IF r.err # NoError
        THEN [group |-> NilGroup, err |-> r.err]
        ELSE [group |-> [manager |-> c.manager, id |-> r.node.NodePoolID],
              err |-> NoError]

\* NodeGroupForNode: the three returns of lines 84-98.
NodeGroupForNode(c, m, name) ==
    LET r == GetCachedNodeForKubernetesNode(m, name)
    IN  IF r.err # NoError
        THEN [group |-> NilGroup, err |-> r.err]
        ELSE IF r.node.NodePoolID = ""
        THEN [group |-> NilGroup, err |-> ErrMissingPool(r.node)]
        ELSE [group |-> [manager |-> c.manager, id |-> r.node.NodePoolID],
              err |-> NoError]

\* Variant: a Pricing that returns nil, nil.
PricingNilNil == [val |-> Nil, err |-> NoError]

\* Pricing, GetAvailableMachineTypes, NewNodeGroup: not implemented.
Pricing == [val |-> Nil, err |-> ErrNotImplemented]
GetAvailableMachineTypes == [val |-> Nil, err |-> ErrNotImplemented]
NewNodeGroup == [val |-> Nil, err |-> ErrNotImplemented]

\* GetResourceLimiter: the stored reference, no error.
GetResourceLimiter(c) == [limiter |-> c.resourceLimiter, err |-> NoError]

\* Cleanup: whatever the manager's Cleanup returns.
Cleanup(m) == ManagerCleanup(m)

\* Variant: a Refresh that drops the manager's error.
RefreshSwallow(m, pulled) == [mgr |-> ManagerRefresh(m, pulled).mgr, err |-> NoError]

\* Variant: a Refresh that does nothing.
RefreshNoop(m, pulled) == [mgr |-> m, err |-> NoError]

\* Refresh: whatever the manager's Refresh returns.
Refresh(m, pulled) == ManagerRefresh(m, pulled)

-----------------------------------------------------------------------------
(* The control loop: one call at a time *)

NoResult == [groups |-> {}, lookup |-> [group |-> NilGroup, err |-> NoError]]
NoReader == [pc |-> "new", op |-> "", arg |-> "", from |-> 0, upto |-> 0, ret |-> NoResult]
NoPending == [pc |-> "idle", pulled |-> Pull(FALSE, EmptyIndex)]

Init ==
    /\ \E rl \in Limiters \cup {Nil} :
          /\ built = [manager |-> ManagerRef, resourceLimiter |-> rl]
          /\ cp = BuildRancherCloudProvider(ManagerRef, rl).provider
    /\ manager = NewManager
    /\ backend \in SampleBackendStates
    /\ backendCalls = 0
    /\ installed = EmptyIndex
    /\ refreshed = FALSE
    /\ last = [op |-> "Build", arg |-> "", ret |-> NoError]
    /\ pending = NoPending
    /\ hist = <<EmptyIndex>>
    /\ rd = [r \in Readers |-> NoReader]

\* The infrastructure changes behind the provider's back.
BackendChange(states) ==
    /\ \E b \in states \ {backend} : backend' = b
    /\ last' = [op |-> "BackendChange", arg |-> "", ret |-> NoError]
    /\ UNCHANGED <<cp, built, manager, backendCalls, installed, refreshed, pending, hist, rd>>

\* cp.Refresh(): the manager pulls the backend's state, which may fail, and
\* installs it; the error, if any, goes to the caller.
DoRefresh ==
    /\ backendCalls < MaxRefresh
    /\ \E ok \in BOOLEAN :
          LET r == Refresh(manager, Pull(ok, backend))
          IN  /\ manager' = r.mgr
              /\ installed' = IF ok THEN backend ELSE installed
              /\ refreshed' = (refreshed \/ ok)
              /\ last' = [op |-> "Refresh", arg |-> ok, ret |-> r.err]
    /\ backendCalls' = backendCalls + 1
    /\ UNCHANGED <<cp, built, backend, pending, hist, rd>>

\* cp.NodeGroups(): reads the manager's cache, whose listing may fail.
DoNodeGroups ==
    /\ \E listOK \in BOOLEAN :
          last' = [op |-> "NodeGroups", arg |-> listOK, ret |-> NodeGroups(manager, listOK)]
    /\ UNCHANGED <<cp, built, manager, backend, backendCalls, installed, refreshed,
                   pending, hist, rd>>

\* Variant: a lookup that first pulls the backend's state into the cache.
DoNodeGroupForNodeLive ==
    /\ \E n \in Nodes :
          LET m == ManagerRefresh(manager, Pull(TRUE, backend)).mgr
          IN  /\ manager' = m
              /\ last' = [op |-> "NodeGroupForNode", arg |-> n,
                          ret |-> NodeGroupForNode(cp, m, n)]
    /\ UNCHANGED <<cp, built, backend, backendCalls, installed, refreshed, pending, hist, rd>>

\* cp.NodeGroupForNode(node): reads the manager's cache.
DoNodeGroupForNode ==
    /\ \E n \in Nodes :
          last' = [op |-> "NodeGroupForNode", arg |-> n, ret |-> NodeGroupForNode(cp, manager, n)]
    /\ UNCHANGED <<cp, built, manager, backend, backendCalls, installed, refreshed,
                   pending, hist, rd>>

DoPricing ==
    /\ last' = [op |-> "Pricing", arg |-> "", ret |-> Pricing]
    /\ UNCHANGED <<cp, built, manager, backend, backendCalls, installed, refreshed,
                   pending, hist, rd>>

DoGetAvailableMachineTypes ==
    /\ last' = [op |-> "GetAvailableMachineTypes", arg |-> "", ret |-> GetAvailableMachineTypes]
    /\ UNCHANGED <<cp, built, manager, backend, backendCalls, installed, refreshed,
                   pending, hist, rd>>

DoNewNodeGroup ==
    /\ last' = [op |-> "NewNodeGroup", arg |-> "", ret |-> NewNodeGroup]
    /\ UNCHANGED <<cp, built, manager, backend, backendCalls, installed, refreshed,
                   pending, hist, rd>>

DoGetResourceLimiter ==
    /\ last' = [op |-> "GetResourceLimiter", arg |-> "", ret |-> GetResourceLimiter(cp)]
    /\ UNCHANGED <<cp, built, manager, backend, backendCalls, installed, refreshed,
                   pending, hist, rd>>

\* cp.Cleanup(): the manager releases what it holds.
DoCleanup ==
    /\ LET r == Cleanup(manager)
       IN  /\ manager' = r.mgr
           /\ last' = [op |-> "Cleanup", arg |-> manager.released, ret |-> r.err]
    /\ UNCHANGED <<cp, built, backend, backendCalls, installed, refreshed, pending, hist, rd>>

Next ==
    \/ BackendChange(Neighbours(backend))
    \/ DoRefresh
    \/ DoNodeGroups
    \/ DoNodeGroupForNode
    \/ DoPricing
    \/ DoGetAvailableMachineTypes
    \/ DoNewNodeGroup
    \/ DoGetResourceLimiter
    \/ DoCleanup

Spec == Init /\ [][Next]_vars

-----------------------------------------------------------------------------
(* One Refresh writer and concurrent readers *)

\* What a reader's call returns on the manager state m.
ReadResult(c, m, op, arg) ==
    IF op = "NodeGroups"
    THEN [groups |-> NodeGroups(m, arg), lookup |-> [group |-> NilGroup, err |-> NoError]]
    ELSE [groups |-> {}, lookup |-> NodeGroupForNode(c, m, arg)]

\* The calls a reader may make: NodeGroups (its listing succeeding or not)
\* and NodeGroupForNode of some node.
ReadCalls ==
    { [op |-> "NodeGroups", arg |-> ok] : ok \in BOOLEAN }
        \cup { [op |-> "NodeGroupForNode", arg |-> n] : n \in Nodes }

\* Refresh, first half: the manager pulls the backend's state.
RefreshPull ==
    /\ pending.pc = "idle"
    /\ backendCalls < MaxRefresh
    /\ \E ok \in BOOLEAN : pending' = [pc |-> "pulled", pulled |-> Pull(ok, backend)]
    /\ backendCalls' = backendCalls + 1
    /\ UNCHANGED <<cp, built, manager, backend, installed, refreshed, last, hist, rd>>

\* Refresh, second half: the manager installs what it pulled and Refresh returns.
RefreshInstall ==
    /\ pending.pc = "pulled"
    /\ LET r == Refresh(manager, pending.pulled)
           ok == pending.pulled.ok
       IN  /\ manager' = r.mgr
           /\ installed' = IF ok THEN pending.pulled.index ELSE installed
           /\ refreshed' = (refreshed \/ ok)
           /\ hist' = IF ok THEN Append(hist, pending.pulled.index) ELSE hist
           /\ last' = [op |-> "Refresh", arg |-> ok, ret |-> r.err]
    /\ pending' = NoPending
    /\ UNCHANGED <<cp, built, backend, backendCalls, rd>>

\* A reader enters NodeGroups or NodeGroupForNode.
ReadInvoke(r) ==
    /\ rd[r].pc # "called"
    /\ \E call \in ReadCalls :
          rd' = [rd EXCEPT ![r] = [pc |-> "called", op |-> call.op, arg |-> call.arg,
                                   from |-> Len(hist), upto |-> 0, ret |-> NoResult]]
    /\ UNCHANGED <<cp, built, manager, backend, backendCalls, installed, refreshed, last,
                   pending, hist>>

\* The reader's call reads the manager's cache and returns.
ReadComplete(r) ==
    /\ rd[r].pc = "called"
    /\ rd' = [rd EXCEPT ![r] = [@ EXCEPT !.pc = "returned",
                                          !.upto = Len(hist),
                                          !.ret = ReadResult(cp, manager, rd[r].op,
                                                            rd[r].arg)]]
    /\ UNCHANGED <<cp, built, manager, backend, backendCalls, installed, refreshed, last,
                   pending, hist>>

NextConc ==
    \/ BackendChange(SampleBackendStates)
    \/ RefreshPull
    \/ RefreshInstall
    \/ \E r \in Readers : ReadInvoke(r)
    \/ \E r \in Readers : ReadComplete(r)

SpecConc == Init /\ [][NextConc]_vars

-----------------------------------------------------------------------------
(* Properties *)

\* The pool ids of a set of node group handles.
GroupIds(handles) == { h.id : h \in handles }

\* State other than the record of the last call.
state == <<cp, built, manager, backend, backendCalls, installed, refreshed, pending, hist, rd>>

\* C1 (as stated): NodeGroupForNode(n) returns (nil, no error) exactly when n
\* is not in the Cached Index (not managed by this provider), and (nil, error)
\* exactly when n is cached with an empty pool id.
C1_TriState ==
    last.op = "NodeGroupForNode" =>
        /\ (last.ret.group = NilGroup /\ last.ret.err = NoError)
              <=> (PoolOf(manager.cache, last.arg) = Nil)
        /\ (last.ret.group = NilGroup /\ last.ret.err # NoError)
              <=> (PoolOf(manager.cache, last.arg) = "")

\* C2: a non-nil group returned by NodeGroupForNode(n) comes with a nil error,
\* and its id is the pool id the Cached Index records for n, which is not empty.
C2_ResolvedGroup ==
    (last.op = "NodeGroupForNode" /\ last.ret.group # NilGroup) =>
        /\ last.ret.err = NoError
        /\ last.ret.group.id = PoolOf(manager.cache, last.arg)
        /\ last.ret.group.id # ""
        /\ last.ret.group.id # Nil

C2_Witness ==
    /\ last.op = "NodeGroupForNode"
    /\ last.arg = "worker-7"
    /\ refreshed
    /\ last.ret.group.id = "pool-a"

\* C3: Pricing, GetAvailableMachineTypes and NewNodeGroup each return nil with
\* the one ErrNotImplemented value, in every state, and change nothing.
C3_Unsupported ==
    [][ last'.op \in {"Pricing", "GetAvailableMachineTypes", "NewNodeGroup"} =>
            /\ last'.ret = [val |-> Nil, err |-> ErrNotImplemented]
            /\ UNCHANGED state ]_vars

\* A capability call after a failed Refresh and a Cleanup, no Refresh having succeeded.
C3_Witness ==
    /\ last.op \in {"Pricing", "GetAvailableMachineTypes", "NewNodeGroup"}
    /\ manager.released
    /\ backendCalls > 0
    /\ ~refreshed

\* C4: NodeGroups() returns the empty set when the manager's listing fails and
\* exactly the handles of the cached pools when it succeeds, so a failed
\* listing and an empty cache give the same result.
C4_NodeGroups ==
    last.op = "NodeGroups" =>
        /\ ~last.arg => last.ret = {}
        /\ last.arg => /\ GroupIds(last.ret) = manager.cache.groups
                       /\ \A h \in last.ret : h.manager = cp.manager
        /\ (manager.cache.groups = {}) => last.ret = {}

\* A listing that fails while the cache holds pools.
C4_Witness ==
    /\ last.op = "NodeGroups"
    /\ ~last.arg
    /\ manager.cache.groups # {}
    /\ last.ret = {}

\* C5: a Refresh whose pull fails returns an error and leaves the Cached Index
\* as it was: NodeGroups and NodeGroupForNode answer as before.
C5_FailedRefresh ==
    [][ (last'.op = "Refresh" /\ ~last'.arg) =>
            /\ last'.ret # NoError
            /\ manager'.cache = manager.cache
            /\ \A ok \in BOOLEAN : NodeGroups(manager', ok) = NodeGroups(manager, ok)
            /\ \A n \in Nodes :
                  NodeGroupForNode(cp', manager', n) = NodeGroupForNode(cp, manager, n) ]_vars

\* A failed Refresh after a successful one, the backend having changed since.
C5_Witness ==
    /\ last.op = "Refresh"
    /\ ~last.arg
    /\ refreshed
    /\ manager.cache.groups # {}
    /\ backend # manager.cache

\* C7 (as stated): once a Refresh has succeeded, NodeGroups() returns exactly
\* the pool set the backend reported to the most recent successful Refresh.
C7_LastGeneration ==
    (last.op = "NodeGroups" /\ refreshed) => GroupIds(last.ret) = installed.groups

\* C7 (amended): once a Refresh has succeeded, NodeGroups() returns exactly the
\* pool set the backend reported to the most recent successful Refresh when
\* the manager's listing succeeds, and the empty set when it fails.
C7_LastGenerationOrEmpty ==
    (last.op = "NodeGroups" /\ refreshed) =>
        GroupIds(last.ret) = IF last.arg THEN installed.groups ELSE {}

\* NodeGroups after two Refresh calls, the backend having changed since the last good one.
C7_Witness ==
    /\ last.op = "NodeGroups"
    /\ last.arg
    /\ refreshed
    /\ backendCalls >= 2
    /\ installed # backend
    /\ GroupIds(last.ret) = {"pool-b"}

\* C8: Cleanup() returns no error, whether or not a Refresh ever succeeded,
\* and a Cleanup() after a Cleanup() changes nothing.
C8_CleanupIdempotent ==
    [][ last'.op = "Cleanup" =>
            /\ last'.ret = NoError
            /\ manager'.released
            /\ manager.released => UNCHANGED state ]_vars

\* A second Cleanup on a provider no Refresh of which succeeded.
C8_Witness ==
    /\ last.op = "Cleanup"
    /\ last.arg
    /\ ~refreshed
    /\ last.ret = NoError

\* C9: the provider holds the limiter it was built with in every state, and
\* GetResourceLimiter() returns it with no error.
C9_Limiter ==
    /\ cp.resourceLimiter = built.resourceLimiter
    /\ last.op = "GetResourceLimiter" =>
          last.ret = [limiter |-> built.resourceLimiter, err |-> NoError]

C9_Witness ==
    /\ last.op = "GetResourceLimiter"
    /\ last.ret.limiter = "limiter-1"
    /\ refreshed
    /\ manager.released

\* C10: NodeGroups and NodeGroupForNode leave the manager (its Cached Index),
\* the backend, the count of backend pulls and the provider's references as
\* they were; only Refresh changes the Cached Index or pulls from the backend.
C10_ReadsOnlyRead ==
    [][ /\ last'.op \in {"NodeGroups", "NodeGroupForNode"} =>
              UNCHANGED <<cp, built, manager, backend, backendCalls>>
        /\ (manager'.cache # manager.cache \/ backendCalls' # backendCalls) =>
              last'.op = "Refresh" ]_vars

\* A lookup that returned an error while the backend differs from the cache.
C10_Witness ==
    /\ last.op = "NodeGroupForNode"
    /\ last.ret.err # NoError
    /\ backend # manager.cache
    /\ backendCalls > 0

\* The manager state whose cache is generation g of the history.
AtGeneration(g) == [manager EXCEPT !.cache = hist[g]]

\* C6 (as stated): every completed read matches one generation current during
\* the call: NodeGroups returned that generation's pool set, NodeGroupForNode
\* what that generation records for the node.
C6_OneGeneration ==
    \A r \in Readers :
        rd[r].pc = "returned" =>
            \E g \in rd[r].from .. rd[r].upto :
                IF rd[r].op = "NodeGroups"
                THEN GroupIds(rd[r].ret.groups) = hist[g].groups
                ELSE rd[r].ret.lookup = NodeGroupForNode(cp, AtGeneration(g), rd[r].arg)

\* C6 (amended): every completed read matches one generation current during
\* the call: NodeGroups returned that generation's pool set, or the empty set
\* when the manager's listing failed; NodeGroupForNode what that generation
\* records for the node.  No read returns a mixture of two generations.
C6_OneGenerationOrEmpty ==
    \A r \in Readers :
        rd[r].pc = "returned" =>
            \E g \in rd[r].from .. rd[r].upto :
                IF rd[r].op = "NodeGroups"
                THEN GroupIds(rd[r].ret.groups) = IF rd[r].arg THEN hist[g].groups ELSE {}
                ELSE rd[r].ret.lookup = NodeGroupForNode(cp, AtGeneration(g), rd[r].arg)

\* A NodeGroups call during which a Refresh installed a different pool set,
\* and which returned the new one.
C6_Witness ==
    \E r \in Readers :
        /\ rd[r].pc = "returned"
        /\ rd[r].op = "NodeGroups"
        /\ rd[r].arg
        /\ rd[r].from < rd[r].upto
        /\ hist[rd[r].from].groups = {"pool-a"}
        /\ hist[rd[r].upto].groups = {"pool-b"}
        /\ GroupIds(rd[r].ret.groups) = {"pool-b"}

====
